---- MODULE Spec2Model ----
(***************************************************************************)
(* Model of InventoryModule.parse of the Outscale inventory plugin         *)
(* (src/plugins/inventory/inventory.py).                                   *)
(*                                                                         *)
(* Python str values are sequences of one-character strings, so that       *)
(* str.replace and f-string concatenation are computed character by        *)
(* character.  None is the one-element sequence Null, whose element is no  *)
(* character.  A dict with literal keys (the configuration, the            *)
(* environment, a tag, host_vars) is a function whose DOMAIN is its key    *)
(* set; a dict keyed by data (the flattened tags) is a sequence of         *)
(* <<key, value>> pairs in insertion order, as Python keeps it.            *)
(***************************************************************************)
EXTENDS Integers, Sequences, FiniteSets, TLC

VARIABLES
    HAS_OSC_SDK,        \* module flag set by the guarded import
    config,             \* dict returned by _read_config_data
    environ,            \* os.environ
    gw_script,          \* the responses the provider gives, one per ReadVms call
    pc,                 \* position in parse
    error,              \* the AnsibleError raised, Null while none
    options,            \* the option locals of parse, once read
    gw_calls,           \* the params of every ReadVms call made, in order
    vms, params, next_token,
    i,                  \* index in vms of the record being processed
    hostname, host_vars,
    inventory,          \* the sink: hosts, host variables, groups, memberships
    sink_log            \* every call made on the sink or on Constructable, in order

vars == <<HAS_OSC_SDK, config, environ, gw_script, pc, error, options, gw_calls,
          vms, params, next_token, i, hostname, host_vars, inventory, sink_log>>

inputVars == <<HAS_OSC_SDK, config, environ, gw_script>>
fetchVars == <<gw_calls, vms, params, next_token>>
loopVars  == <<i, hostname, host_vars>>
sinkVars  == <<inventory, sink_log>>

-----------------------------------------------------------------------------
(* Python values *)

Null == <<"None">>

\* truth value of a str-or-None value: None and '' are false
Truthy(v) == v # Null /\ v # <<>>

\* d.get(k, default) for a dict with literal keys
Get(d, k, default) == IF k \in DOMAIN d THEN d[k] ELSE default

EmptyDict == [k \in {} |-> Null]

\* d[k] = v for a dict with literal keys
DictPut(d, k, v) == (k :> v) @@ d

\* d[k] = v for an insertion-ordered dict keyed by data
DictSet(d, k, v) ==
    IF \E j \in 1..Len(d) : d[j][1] = k
    THEN [j \in 1..Len(d) |-> IF d[j][1] = k THEN <<k, v>> ELSE d[j]]
    ELSE Append(d, <<k, v>>)

\* d.get(k, default) for an insertion-ordered dict keyed by data
DictGet(d, k, default) ==
    IF \E j \in 1..Len(d) : d[j][1] = k
    THEN d[CHOOSE j \in 1..Len(d) : d[j][1] = k][2]
    ELSE default

\* s.replace(old, new) for one-character old and new
Replace(s, old, new) ==
    IF s = <<>> THEN <<>>
    ELSE [j \in 1..Len(s) |-> IF s[j] = old THEN new ELSE s[j]]

-----------------------------------------------------------------------------
(* String literals of the source *)

S_eu_west_2 == <<"e", "u", "-", "w", "e", "s", "t", "-", "2">>
S_Name      == <<"N", "a", "m", "e">>
S_tag_      == <<"t", "a", "g", "_">>
S_vm_type_  == <<"v", "m", "_", "t", "y", "p", "e", "_">>
S_state_    == <<"s", "t", "a", "t", "e", "_">>
S_us        == <<"_">>

AllGroupBy == {"tags", "region", "subregion", "vm_type", "state"}

HostVarNames == <<"ansible_host", "outscale_vm_id", "outscale_state",
                  "outscale_vm_type", "outscale_subregion", "outscale_tags">>

-----------------------------------------------------------------------------
(* Pure parts of parse *)

\* {tag['Key']: tag['Value'] for tag in vm.get('Tags', []) if 'Value' in tag}
RECURSIVE TagsDictUpTo(_, _)
TagsDictUpTo(tags, n) ==
    IF n = 0 THEN <<>>
    ELSE LET d == TagsDictUpTo(tags, n - 1)
         IN  IF "Value" \in DOMAIN tags[n]
             THEN DictSet(d, tags[n].Key, tags[n].Value)
             ELSE d

TagsDict(vm) == TagsDictUpTo(vm.Tags, Len(vm.Tags))

\* the hostname chosen by hostname_variable, one of its four documented choices
DeriveHostname(hostname_variable, vm) ==
    CASE hostname_variable = "vm_id"      -> vm.VmId
      [] hostname_variable = "public_ip"  -> vm.PublicIp
      [] hostname_variable = "private_ip" -> vm.PrivateIp
      [] hostname_variable = "tag_Name"   -> DictGet(TagsDict(vm), S_Name, vm.VmId)

\* variant: the record is skipped only when the hostname is None
SkipRecordNoneOnly(h) == h = Null

\* if not hostname: continue
SkipRecord(h) == ~Truthy(h)

\* the ip_preference values the if/elif chain accepts
ValidIpPreference(ip_preference) ==
    ip_preference \in {"public_only", "private_only", "prefer_public"}

\* variant: prefer_public does not fall back on the private address
SelectAnsibleHostNoFallback(ip_preference, vm) ==
    CASE ip_preference = "public_only"   ->
            IF Truthy(vm.PublicIp) THEN vm.PublicIp ELSE Null
      [] ip_preference = "private_only"  ->
            IF Truthy(vm.PrivateIp) THEN vm.PrivateIp ELSE Null
      [] ip_preference = "prefer_public" ->
            IF Truthy(vm.PublicIp) THEN vm.PublicIp ELSE Null

\* the value of ansible_host chosen by ip_preference
SelectAnsibleHost(ip_preference, vm) ==
    CASE ip_preference = "public_only"   ->
            IF Truthy(vm.PublicIp) THEN vm.PublicIp ELSE Null
      [] ip_preference = "private_only"  ->
            IF Truthy(vm.PrivateIp) THEN vm.PrivateIp ELSE Null
      [] ip_preference = "prefer_public" ->
            IF Truthy(vm.PublicIp) THEN vm.PublicIp ELSE vm.PrivateIp

\* variant: the space is not replaced
SafeValueNoSpace(value) ==
    Replace(Replace(IF Truthy(value) THEN value ELSE <<>>, ":", "_"), "/", "_")

\* str(value or '').replace(":", "_").replace("/", "_").replace(" ", "_")
SafeValue(value) ==
    Replace(Replace(Replace(IF Truthy(value) THEN value ELSE <<>>,
                            ":", "_"), "/", "_"), " ", "_")

\* f'tag_{key}_{safe_value}'
TagGroupName(key, value) == S_tag_ \o key \o S_us \o SafeValue(value)

\* the groups of the tags dimension, in the dict's order
TagGroups(vm) ==
    LET d == TagsDict(vm)
    IN  [j \in 1..Len(d) |-> [group |-> TagGroupName(d[j][1], d[j][2]), dim |-> "tags"]]

\* the group of each of the four single-valued dimensions, <<>> when it adds none
RegionGroups(group_by, region) ==
    IF "region" \in group_by /\ Truthy(region)
    THEN <<[group |-> region, dim |-> "region"]>> ELSE <<>>

SubregionGroups(group_by, vm) ==
    IF "subregion" \in group_by /\ Truthy(vm.Placement.SubregionName)
    THEN <<[group |-> vm.Placement.SubregionName, dim |-> "subregion"]>> ELSE <<>>

VmTypeGroups(group_by, vm) ==
    IF "vm_type" \in group_by /\ Truthy(vm.VmType)
    THEN <<[group |-> S_vm_type_ \o vm.VmType, dim |-> "vm_type"]>> ELSE <<>>

\* variant: the state group is made without looking at the state
StateGroupsNoPresence(group_by, vm) ==
    IF "state" \in group_by
    THEN <<[group |-> S_state_ \o vm.State, dim |-> "state"]>> ELSE <<>>

StateGroups(group_by, vm) ==
    IF "state" \in group_by /\ Truthy(vm.State)
    THEN <<[group |-> S_state_ \o vm.State, dim |-> "state"]>> ELSE <<>>

\* every group the record's host is added to, in the order of the source
GroupsOf(group_by, region, vm) ==
    (IF "tags" \in group_by THEN TagGroups(vm) ELSE <<>>)
    \o RegionGroups(group_by, region)
    \o SubregionGroups(group_by, vm)
    \o VmTypeGroups(group_by, vm)
    \o StateGroups(group_by, vm)

-----------------------------------------------------------------------------
(* The option locals of parse (lines 101-113) *)

\* os.getenv(name)
Getenv(env, name) == Get(env, name, Null)

\* a or b
Or(a, b) == IF Truthy(a) THEN a ELSE b

DefaultIpPreference == "public_or_private"

ReadOptions(cfg, env) ==
    [access_key        |-> Or(Get(cfg, "access_key", Null), Getenv(env, "OSC_ACCESS_KEY")),
     secret_key        |-> Or(Get(cfg, "secret_key", Null), Getenv(env, "OSC_SECRET_KEY")),
     region            |-> Or(Get(cfg, "region", S_eu_west_2), Getenv(env, "OSC_REGION")),
     filters           |-> Get(cfg, "filters", EmptyDict),
     hostname_variable |-> Get(cfg, "hostname_variable", "tag_Name"),
     ip_preference     |-> Get(cfg, "ip_preference", DefaultIpPreference),
     group_by          |-> Get(cfg, "group_by", AllGroupBy),
     compose           |-> Get(cfg, "compose", <<>>),
     strict            |-> Get(cfg, "strict", FALSE)]

\* variant: raise only when both keys are missing
CredentialsBothMissing(opts) == ~Truthy(opts.access_key) /\ ~Truthy(opts.secret_key)

\* if not access_key or not secret_key: raise
CredentialsMissing(opts) == ~Truthy(opts.access_key) \/ ~Truthy(opts.secret_key)

-----------------------------------------------------------------------------
(* The inventory sink (provided by the orchestrator) as parse uses it *)

EmptyInventory == [hosts |-> {}, vars |-> EmptyDict, groups |-> {}, children |-> {}]

add_host(inv, h) ==
    [inv EXCEPT !.hosts = @ \cup {h},
                !.vars  = IF h \in DOMAIN @ THEN @ ELSE (h :> EmptyDict) @@ @]

set_variable(inv, h, var, value) ==
    [inv EXCEPT !.vars[h] = DictPut(@, var, value)]

add_group(inv, g) == [inv EXCEPT !.groups = @ \cup {g}]

add_child(inv, g, h) == [inv EXCEPT !.children = @ \cup {<<g, h>>}]

\* inventory.get_host(h).get_vars().get(var)
get_var(inv, h, var) == Get(inv.vars[h], var, Null)

\* the set_variable calls of lines 172-180, in order
VariablesOf(ip_preference, vm) ==
    LET ansible_host == SelectAnsibleHost(ip_preference, vm)
    IN  (IF Truthy(ansible_host)
         THEN <<[var |-> "ansible_host", value |-> ansible_host]>> ELSE <<>>)
        \o <<[var |-> "outscale_vm_id",     value |-> vm.VmId],
             [var |-> "outscale_state",     value |-> vm.State],
             [var |-> "outscale_vm_type",   value |-> vm.VmType],
             [var |-> "outscale_subregion", value |-> vm.Placement.SubregionName],
             [var |-> "outscale_tags",      value |-> TagsDict(vm)]>>

RECURSIVE SetAll(_, _, _, _)
SetAll(inv, h, sets, n) ==
    IF n = 0 THEN inv
    ELSE set_variable(SetAll(inv, h, sets, n - 1), h, sets[n].var, sets[n].value)

\* host_vars: every listed variable the sink holds for the host with a value
\* that is not None (lines 183-187)
BuildHostVars(inv, h) ==
    [var \in {HostVarNames[j] : j \in {j \in 1..Len(HostVarNames) :
                                        get_var(inv, h, HostVarNames[j]) # Null}}
        |-> get_var(inv, h, var)]

\* _set_composite_vars on the first n entries of compose: an entry is
\* <<variable, name of the host_vars entry its expression reads>>; an
\* expression reading an undefined variable fails, which raises under strict
\* and is skipped otherwise
RECURSIVE Composite(_, _, _, _)
Composite(compose, hv, strict, n) ==
    IF n = 0 THEN [failed |-> FALSE, sets |-> <<>>]
    ELSE LET r == Composite(compose, hv, strict, n - 1)
         IN  IF r.failed THEN r
             ELSE IF compose[n][2] \in DOMAIN hv
             THEN [r EXCEPT !.sets =
                      Append(@, [var |-> compose[n][1], value |-> hv[compose[n][2]]])]
             ELSE IF strict THEN [r EXCEPT !.failed = TRUE]
             ELSE r

RECURSIVE JoinAll(_, _, _, _)
JoinAll(inv, h, gs, n) ==
    IF n = 0 THEN inv
    ELSE add_child(add_group(JoinAll(inv, h, gs, n - 1), gs[n].group), gs[n].group, h)

\* the sink_log entries of the sink calls
LogSets(k, h, sets) ==
    [j \in 1..Len(sets) |->
        [vm |-> k, op |-> "set_variable", host |-> h,
         var |-> sets[j].var, value |-> sets[j].value]]

LogJoins(k, h, gs) ==
    [j \in 1..(2 * Len(gs)) |->
        [vm |-> k, op |-> IF j % 2 = 1 THEN "add_group" ELSE "add_child",
         host |-> h, group |-> gs[(j + 1) \div 2].group, dim |-> gs[(j + 1) \div 2].dim]]

LogConstructable(k, h, hv) ==
    <<[vm |-> k, op |-> "_add_host_to_composed_groups", host |-> h, host_vars |-> hv],
      [vm |-> k, op |-> "_add_host_to_keyed_groups", host |-> h, host_vars |-> hv]>>

-----------------------------------------------------------------------------
(* parse, step by step *)

Raise(e) == pc' = "error" /\ error' = e

\* variant: the group_by dimensions run before the Constructable features
StepAfterGroupsFirst(step) ==
    CASE step = "variables"     -> "groups"
      [] step = "groups"        -> "constructable"
      [] step = "constructable" -> "loop"

\* the order of the three blocks run for a record whose host was added:
\* the variables (160-187), the Constructable features (189-192), the
\* group_by dimensions (194-222), then the next record
StepAfter(step) ==
    CASE step = "variables"     -> "constructable"
      [] step = "constructable" -> "groups"
      [] step = "groups"        -> "loop"

\* lines 97-98
CheckSdk ==
    /\ pc = "start"
    /\ IF ~HAS_OSC_SDK
       THEN Raise("missing_required_lib")
       ELSE pc' = "options" /\ error' = error
    /\ UNCHANGED <<inputVars, options, fetchVars, loopVars, sinkVars>>

\* lines 101-113
ResolveOptions ==
    /\ pc = "options"
    /\ options' = ReadOptions(config, environ)
    /\ pc' = "credentials"
    /\ UNCHANGED <<inputVars, error, fetchVars, loopVars, sinkVars>>

\* variant: ip_preference is validated with the credentials, before the fetch
CheckCredentialsAndPolicy ==
    /\ pc = "credentials"
    /\ IF CredentialsMissing(options)
       THEN Raise("missing_credentials") /\ UNCHANGED fetchVars
       ELSE IF ~ValidIpPreference(options.ip_preference)
       THEN Raise("invalid_ip_preference") /\ UNCHANGED fetchVars
       ELSE /\ pc' = "fetch" /\ error' = error
            /\ vms' = <<>>
            /\ params' = [Filters |-> options.filters]
            /\ next_token' = Null
            /\ gw_calls' = gw_calls
    /\ UNCHANGED <<inputVars, options, loopVars, sinkVars>>

\* lines 116-132: the credentials check, the gateway, the empty accumulator
CheckCredentials ==
    /\ pc = "credentials"
    /\ IF CredentialsMissing(options)
       THEN Raise("missing_credentials") /\ UNCHANGED fetchVars
       ELSE /\ pc' = "fetch" /\ error' = error
            /\ vms' = <<>>
            /\ params' = [Filters |-> options.filters]
            /\ next_token' = Null
            /\ gw_calls' = gw_calls
    /\ UNCHANGED <<inputVars, options, loopVars, sinkVars>>

\* variant: the token is set once and never replaced
CallParamsKeepFirst(p, token) ==
    IF Truthy(token) /\ "NextPageToken" \notin DOMAIN p
    THEN DictPut(p, "NextPageToken", token) ELSE p

\* the params of the next ReadVms call (lines 134-135)
CallParams(p, token) ==
    IF Truthy(token) THEN DictPut(p, "NextPageToken", token) ELSE p

\* whether the fetch loop goes round again (lines 139-140)
FetchAgain(token) == Truthy(token)

\* lines 133-140: one round of the fetch loop
ReadVms ==
    /\ pc = "fetch"
    /\ Len(gw_calls) < Len(gw_script)
    /\ LET p        == CallParams(params, next_token)
           response == gw_script[Len(gw_calls) + 1]
       IN  /\ params' = p
           /\ gw_calls' = Append(gw_calls, p)
           /\ vms' = vms \o response.Vms
           /\ next_token' = response.NextPageToken
           /\ pc' = IF FetchAgain(response.NextPageToken) THEN "fetch" ELSE "loop"
    /\ UNCHANGED <<inputVars, error, options, loopVars, sinkVars>>

\* lines 143-158: the next record, its hostname, the skip or add_host
NextVm ==
    /\ pc = "loop"
    /\ i < Len(vms)
    /\ LET h == DeriveHostname(options.hostname_variable, vms[i + 1])
       IN  /\ i' = i + 1
           /\ hostname' = h
           /\ IF SkipRecord(h)
              THEN pc' = "loop" /\ UNCHANGED sinkVars
              ELSE /\ pc' = "variables"
                   /\ inventory' = add_host(inventory, h)
                   /\ sink_log' = Append(sink_log,
                                         [vm |-> i + 1, op |-> "add_host", host |-> h])
    /\ UNCHANGED <<inputVars, error, options, fetchVars, host_vars>>

\* lines 160-187: ansible_host, the five attribute variables, host_vars
SetVariables ==
    /\ pc = "variables"
    /\ IF ~ValidIpPreference(options.ip_preference)
       THEN Raise("invalid_ip_preference") /\ UNCHANGED <<host_vars, sinkVars>>
       ELSE LET sets == VariablesOf(options.ip_preference, vms[i])
                inv  == SetAll(inventory, hostname, sets, Len(sets))
            IN  /\ inventory' = inv
                /\ sink_log' = sink_log \o LogSets(i, hostname, sets)
                /\ host_vars' = BuildHostVars(inv, hostname)
                /\ pc' = StepAfter("variables") /\ error' = error
    /\ UNCHANGED <<inputVars, options, fetchVars, i, hostname>>

\* lines 189-192: the Constructable features, on host_vars
ApplyConstructable ==
    /\ pc = "constructable"
    /\ LET r   == Composite(options.compose, host_vars, options.strict,
                            Len(options.compose))
           inv == SetAll(inventory, hostname, r.sets, Len(r.sets))
           log == Append(sink_log, [vm |-> i, op |-> "_set_composite_vars",
                                    host |-> hostname, host_vars |-> host_vars])
                  \o LogSets(i, hostname, r.sets)
       IN  /\ inventory' = inv
           /\ IF r.failed
              THEN Raise("constructable_strict") /\ sink_log' = log
              ELSE /\ pc' = StepAfter("constructable") /\ error' = error
                   /\ sink_log' = log \o LogConstructable(i, hostname, host_vars)
    /\ UNCHANGED <<inputVars, options, fetchVars, loopVars>>

\* lines 194-222: the group_by dimensions
AddToGroups ==
    /\ pc = "groups"
    /\ LET gs == GroupsOf(options.group_by, options.region, vms[i])
       IN  /\ inventory' = JoinAll(inventory, hostname, gs, Len(gs))
           /\ sink_log' = sink_log \o LogJoins(i, hostname, gs)
    /\ pc' = StepAfter("groups")
    /\ UNCHANGED <<inputVars, error, options, fetchVars, loopVars>>

\* the for loop is exhausted: parse returns
Return ==
    /\ pc = "loop"
    /\ i = Len(vms)
    /\ pc' = "done"
    /\ UNCHANGED <<inputVars, error, options, fetchVars, loopVars, sinkVars>>

Next ==
    \/ CheckSdk
    \/ ResolveOptions
    \/ CheckCredentials
    \/ ReadVms
    \/ NextVm
    \/ SetVariables
    \/ ApplyConstructable
    \/ AddToGroups
    \/ Return

-----------------------------------------------------------------------------
(* The runs explored: configuration, environment and provider responses.   *)
(* parse reads every option and every record field on its own, so the      *)
(* inputs are varied one group at a time around a base configuration and   *)
(* a base record.                                                          *)

MaxPages == 3       \* responses of one fetch
MaxVms   == 2       \* records of one run, where hostnames may collide
MaxTags  == 2       \* tags of one record
MaxLen   == 2       \* characters of one tag value

SeqsUpTo(S, n) == UNION {[1..k -> S] : k \in 0..n}

S_AK      == <<"A", "K">>
S_SK      == <<"S", "K">>
S_i1      == <<"i", "-", "1">>
S_i2      == <<"i", "-", "2">>
S_pub     == <<"1", ".", "2">>
S_priv    == <<"1", "0", ".", "0">>
S_running == <<"r", "u", "n">>
S_t2      == <<"t", "2">>
S_sub     == <<"e", "u", "a">>
S_web     == <<"w", "e", "b">>
S_env     == <<"e", "n", "v">>
S_r1      == <<"r", "1">>
S_r2      == <<"r", "2">>
S_tok1    == <<"p", "1">>
S_tok2    == <<"p", "2">>

Missing == <<"missing">>     \* the key is not in the dict

\* the dict {k: v}, or {} when v is Missing
Opt(k, v) == IF v = Missing THEN EmptyDict ELSE (k :> v)
OptS(k, v) == IF v = "missing" THEN EmptyDict ELSE (k :> v)

Tag(k, v) == IF v = Missing THEN [Key |-> k] ELSE [Key |-> k, Value |-> v]

Vm(id, pub, priv, st, ty, sub, tags) ==
    [VmId |-> id, PublicIp |-> pub, PrivateIp |-> priv, State |-> st, VmType |-> ty,
     Placement |-> [SubregionName |-> sub], Tags |-> tags]

BaseVm == Vm(S_i1, S_pub, S_priv, S_running, S_t2, S_sub, <<>>)

BaseConfig == [access_key |-> S_AK, secret_key |-> S_SK, ip_preference |-> "prefer_public"]

OnePage(records) == <<[Vms |-> records, NextPageToken |-> Null]>>

Run(sdk, cfg, env, script) ==
    [sdk |-> sdk, config |-> cfg, environ |-> env, script |-> script]

\* the SDK and the credentials, from the configuration and the environment
EnvRuns ==
    {Run(sdk, Opt("access_key", a) @@ Opt("secret_key", b)
              @@ [ip_preference |-> "prefer_public"],
         Opt("OSC_ACCESS_KEY", ea) @@ Opt("OSC_SECRET_KEY", eb),
         OnePage(<<BaseVm>>)) :
        sdk \in BOOLEAN, a \in {Missing, <<>>, S_AK}, b \in {Missing, <<>>, S_SK},
        ea \in {Missing, S_AK}, eb \in {Missing, S_SK}}

\* the provider's responses: every response but the last carries a token
FetchVms == {<<>>, <<BaseVm>>, <<Vm(S_i2, Null, S_priv, S_running, S_t2, S_sub, <<>>)>>}

Responses == [Vms : FetchVms, NextPageToken : {Null, <<>>, S_tok1, S_tok2}]

Scripts ==
    UNION {{s \in [1..n -> Responses] :
                /\ \A j \in 1..(n - 1) : Truthy(s[j].NextPageToken)
                /\ ~Truthy(s[n].NextPageToken)} : n \in 1..MaxPages}

FetchRuns == {Run(TRUE, BaseConfig, EmptyDict, s) : s \in Scripts}

\* the hostname strategy and the address policy
MapVms ==
    {Vm(id, pub, priv, S_running, S_t2, S_sub, tags) :
        id \in {Null, S_i1}, pub \in {Null, <<>>, S_pub}, priv \in {Null, S_priv},
        tags \in {<<>>, <<Tag(S_Name, S_web)>>, <<Tag(S_Name, <<>>)>>}}

\* records of one run: with and without an address, under one Name or none
SeqVms ==
    {Vm(id, pub, Null, S_running, S_t2, S_sub, tags) :
        id \in {Null, S_i1}, pub \in {Null, S_pub},
        tags \in {<<>>, <<Tag(S_Name, S_web)>>}}

MapConfigs ==
    {[access_key |-> S_AK, secret_key |-> S_SK, hostname_variable |-> hv]
     @@ OptS("ip_preference", ip) :
        hv \in {"vm_id", "public_ip", "private_ip", "tag_Name"},
        ip \in {"missing", "public_only", "private_only", "prefer_public", "both"}}

MapRuns ==
    {Run(TRUE, c, EmptyDict, OnePage(<<vm>>)) : c \in MapConfigs, vm \in MapVms}

SeqRuns ==
    {Run(TRUE, c, EmptyDict, OnePage(records)) :
        c \in MapConfigs, records \in SeqsUpTo(SeqVms, MaxVms)}

\* the grouping dimensions and the region
GroupVms ==
    {Vm(S_i1, S_pub, Null, st, ty, sub, tags) :
        st \in {Null, S_running}, ty \in {Null, S_t2}, sub \in {Null, S_sub},
        tags \in {<<>>, <<Tag(S_env, <<"a", " ", "b">>)>>}}

RegionInputs ==
    {<<EmptyDict, EmptyDict>>,
     <<[region |-> <<>>], EmptyDict>>,
     <<[region |-> <<>>], [OSC_REGION |-> S_r2]>>,
     <<[region |-> S_r1], [OSC_REGION |-> S_r2]>>}

GroupRuns ==
    {Run(TRUE, BaseConfig @@ [group_by |-> g] @@ r[1], r[2], OnePage(<<vm>>)) :
        g \in SUBSET AllGroupBy, r \in RegionInputs, vm \in GroupVms}

\* the Constructable options
StrictVms == {Vm(S_i1, S_pub, Null, st, S_t2, S_sub, <<>>) : st \in {Null, S_running}}

StrictConfigs ==
    {BaseConfig @@ Opt("compose", c) @@ st :
        c \in {Missing, <<>>, << <<"state_copy", "outscale_state">> >>},
        st \in {EmptyDict, [strict |-> FALSE], [strict |-> TRUE]}}

StrictRuns ==
    {Run(TRUE, c, EmptyDict, OnePage(records)) :
        c \in StrictConfigs, records \in SeqsUpTo(StrictVms, MaxVms)}

\* the tags: values over an alphabet holding the three replaced characters,
\* and lists with duplicated keys and entries without a value
Alphabet == {"a", ":", "/", " ", "_"}

TagValues == SeqsUpTo(Alphabet, MaxLen)

SanitizeVms ==
    {Vm(S_i1, S_pub, Null, Null, Null, Null, <<Tag(k, v)>>) :
        k \in {S_Name, S_env}, v \in TagValues}

FlattenTags ==
    {Tag(k, v) : k \in {S_Name, S_env}, v \in {Missing, Null, <<"a">>, <<"b", ":">>}}

FlattenVms ==
    {Vm(S_i1, S_pub, Null, Null, Null, Null, tags) : tags \in SeqsUpTo(FlattenTags, MaxTags)}

TagRuns ==
    {Run(TRUE, BaseConfig @@ OptS("hostname_variable", hv), EmptyDict, OnePage(<<vm>>)) :
        hv \in {"missing", "vm_id"}, vm \in SanitizeVms \cup FlattenVms}

\* one record tagged Name=web:1, grouped by tags and state
S_web1 == <<"w", "e", "b", ":", "1">>

ExampleRuns ==
    {Run(TRUE, BaseConfig @@ [hostname_variable |-> "tag_Name", group_by |-> {"tags", "state"}],
         EmptyDict,
         OnePage(<<Vm(S_i1, S_pub, Null, S_running, Null, Null, <<Tag(S_Name, S_web1)>>)>>))}

Runs ==
    EnvRuns \cup FetchRuns \cup MapRuns \cup SeqRuns \cup GroupRuns \cup StrictRuns
    \cup TagRuns \cup ExampleRuns

Init ==
    /\ \E r \in Runs :
        /\ HAS_OSC_SDK = r.sdk
        /\ config = r.config
        /\ environ = r.environ
        /\ gw_script = r.script
    /\ pc = "start"
    /\ error = "none"
    /\ options = EmptyDict
    /\ gw_calls = <<>>
    /\ vms = <<>>
    /\ params = EmptyDict
    /\ next_token = Null
    /\ i = 0
    /\ hostname = Null
    /\ host_vars = EmptyDict
    /\ inventory = EmptyInventory
    /\ sink_log = <<>>

Spec == Init /\ [][Next]_vars

-----------------------------------------------------------------------------
(* Vocabulary of the properties, stated on the inputs and on the calls     *)
(* observed at the two boundaries (gw_calls, sink_log)                     *)

\* a value that is neither absent nor empty
Present(v) == v # Null /\ Len(v) > 0

LogIdx == 1..Len(sink_log)

\* the calls made while processing record k
CallsOf(k) == {j \in LogIdx : sink_log[j].vm = k}

GroupOps == {"add_group", "add_child"}
ConstructableOps ==
    {"_set_composite_vars", "_add_host_to_composed_groups", "_add_host_to_keyed_groups"}

\* the configured value of an option, else its documented default
Configured(option, default) == IF option \in DOMAIN config THEN config[option] ELSE default

Strategy == Configured("hostname_variable", "tag_Name")
Dimensions == Configured("group_by", {"tags", "region", "subregion", "vm_type", "state"})

\* the tags of a record that carry a value
Valued(tags) == {j \in 1..Len(tags) : "Value" \in DOMAIN tags[j]}

\* the keys of the flattened tag map
FlatKeys(tags) == {tags[j].Key : j \in Valued(tags)}

\* the value the flattened tag map gives a key: that of its last valued tag
FlatValue(tags, key) ==
    LET last == CHOOSE j \in Valued(tags) :
                    /\ tags[j].Key = key
                    /\ \A m \in Valued(tags) : tags[m].Key = key => m <= j
    IN  tags[last].Value

\* the source field the hostname strategy chooses
ChosenHostname(strategy, vm) ==
    CASE strategy = "vm_id"      -> vm.VmId
      [] strategy = "public_ip"  -> vm.PublicIp
      [] strategy = "private_ip" -> vm.PrivateIp
      [] strategy = "tag_Name"   ->
            IF <<"N", "a", "m", "e">> \in FlatKeys(vm.Tags)
            THEN FlatValue(vm.Tags, <<"N", "a", "m", "e">>)
            ELSE vm.VmId

Resolves(k) == Present(ChosenHostname(Strategy, vms[k]))

\* the connection address an address policy chooses, Null when it chooses none
ChosenAddress(policy, vm) ==
    CASE policy = "public_only"   -> IF Present(vm.PublicIp) THEN vm.PublicIp ELSE Null
      [] policy = "private_only"  -> IF Present(vm.PrivateIp) THEN vm.PrivateIp ELSE Null
      [] policy = "prefer_public" ->
            IF Present(vm.PublicIp) THEN vm.PublicIp
            ELSE IF Present(vm.PrivateIp) THEN vm.PrivateIp ELSE Null

Policies == {"public_only", "private_only", "prefer_public"}

\* the fetch loop has ended and the records are being processed
Fetched ==
    \/ pc \in {"loop", "variables", "constructable", "groups", "done"}
    \/ pc = "error" /\ error \in {"invalid_ip_preference", "constructable_strict"}

\* record k went through all of its processing
Completed(k) == k < i \/ (k = i /\ pc \in {"loop", "done"})

\* record k was given a host and went through all of its processing
Processed(k) ==
    /\ Completed(k)
    /\ \E j \in CallsOf(k) : sink_log[j].op = "add_host"

\* the ansible_host values written while processing record k
AddressWrites(k) ==
    {j \in CallsOf(k) : sink_log[j].op = "set_variable" /\ sink_log[j].var = "ansible_host"}

-----------------------------------------------------------------------------
(* Properties *)

\* C1: under each of the four hostname strategies, the step that takes a
\* record whose chosen hostname is empty or absent makes no call on the sink
\* and leaves its hosts, variables, groups and memberships as they were, and
\* the loop goes on to the next record.
C1_SkipIsTotal ==
    [][(/\ pc = "loop"
        /\ i < Len(vms)
        /\ ~Present(ChosenHostname(Strategy, vms[i + 1])))
       => (/\ inventory' = inventory
           /\ sink_log' = sink_log
           /\ pc' = "loop"
           /\ i' = i + 1)]_vars

\* a first record was skipped without a call, and the second is being processed
C1_Witness ==
    /\ pc = "variables"
    /\ i = 2
    /\ ~Resolves(1)
    /\ CallsOf(1) = {}
    /\ CallsOf(2) # {}

\* the records of the first n responses, in order
RECURSIVE PagesUpTo(_, _)
PagesUpTo(script, n) ==
    IF n = 0 THEN <<>> ELSE PagesUpTo(script, n - 1) \o script[n].Vms

\* every response but the last carries a continuation token
TokensUntilLast(script) ==
    /\ \A j \in 1..(Len(script) - 1) : Present(script[j].NextPageToken)
    /\ ~Present(script[Len(script)].NextPageToken)

\* C2: when each of the N responses but the last carries a continuation
\* token, the fetch loop makes exactly N ReadVms calls, the first without a
\* token and each later one with the token of the response just before it,
\* and the accumulated records are the N pages' records in page order.
C2_Pagination ==
    /\ Len(gw_calls) <= Len(gw_script)
    /\ (Fetched /\ TokensUntilLast(gw_script)) =>
          /\ Len(gw_calls) = Len(gw_script)
          /\ "NextPageToken" \notin DOMAIN gw_calls[1]
          /\ \A j \in 2..Len(gw_calls) :
                /\ "NextPageToken" \in DOMAIN gw_calls[j]
                /\ gw_calls[j].NextPageToken = gw_script[j - 1].NextPageToken
          /\ vms = PagesUpTo(gw_script, Len(gw_script))

\* three calls were made, with two different tokens, and gave different records
C2_Witness ==
    /\ Fetched
    /\ Len(gw_calls) = 3
    /\ gw_calls[2].NextPageToken # gw_calls[3].NextPageToken
    /\ Len(vms) = 3
    /\ vms[1] # vms[2]

\* record k has had its variables written
VariablesWritten(k) ==
    \/ k < i
    \/ k = i /\ pc \in {"constructable", "groups", "loop", "done"}
    \/ k = i /\ pc = "error" /\ error = "constructable_strict"

\* the ansible_host written for record k is the address the policy chooses,
\* and nothing is written when it chooses none
WritesAddress(k, policy) ==
    LET want == ChosenAddress(policy, vms[k])
    IN  IF Present(want)
        THEN /\ AddressWrites(k) # {}
             /\ \A j \in AddressWrites(k) :
                    /\ sink_log[j].value = want
                    /\ sink_log[j].host = ChosenHostname(Strategy, vms[k])
        ELSE AddressWrites(k) = {}

\* C3: under public_only, private_only and prefer_public, a record whose
\* hostname resolves gets its host; the ansible_host written for it is the
\* public address, the private address, or the public address if present
\* else the private one; when that address is absent no ansible_host is
\* written, and the host still gets its five attribute variables and its
\* groups.
C3_AddressPolicy ==
    \A k \in 1..Len(vms) :
        (/\ Fetched
         /\ k <= i
         /\ Resolves(k)
         /\ "ip_preference" \in DOMAIN config
         /\ config.ip_preference \in Policies
         /\ VariablesWritten(k))
        => LET h == ChosenHostname(Strategy, vms[k])
           IN  /\ \E j \in CallsOf(k) : sink_log[j].op = "add_host" /\ sink_log[j].host = h
               /\ h \in inventory.hosts
               /\ WritesAddress(k, config.ip_preference)
               /\ \A var \in {"outscale_vm_id", "outscale_state", "outscale_vm_type",
                              "outscale_subregion", "outscale_tags"} :
                     \E j \in CallsOf(k) :
                        /\ sink_log[j].op = "set_variable"
                        /\ sink_log[j].var = var
                        /\ sink_log[j].host = h
               /\ (Processed(k) /\ "state" \in Dimensions /\ Present(vms[k].State))
                     => <<<<"s", "t", "a", "t", "e", "_">> \o vms[k].State, h>>
                            \in inventory.children

\* under private_only a record without a private address went through: its
\* host exists, with variables and groups, and no ansible_host was written
C3_Witness ==
    /\ pc = "done"
    /\ "ip_preference" \in DOMAIN config
    /\ config.ip_preference = "private_only"
    /\ Len(vms) = 1
    /\ Processed(1)
    /\ ~Present(vms[1].PrivateIp)
    /\ Present(vms[1].PublicIp)
    /\ AddressWrites(1) = {}
    /\ \E g \in inventory.groups : <<g, hostname>> \in inventory.children

\* C4: when the configuration does not set ip_preference, the declared
\* default prefer_public applies: no address-policy error is raised, and
\* each record whose hostname resolves gets the public address if present,
\* else the private address.
C4_DeclaredDefault ==
    ("ip_preference" \notin DOMAIN config) =>
        /\ error # "invalid_ip_preference"
        /\ \A k \in 1..Len(vms) :
              (Fetched /\ k <= i /\ Resolves(k) /\ VariablesWritten(k))
              => WritesAddress(k, "prefer_public")

\* the address policy parse uses is none of the three
InvalidPolicy ==
    /\ "ip_preference" \in DOMAIN options
    /\ options.ip_preference \notin Policies

\* C5: when the address policy is none of the three, the error is raised
\* while processing the first record whose hostname resolves: the records
\* before it were skipped without a call on the sink, nothing after it is
\* processed, nothing is raised before the records are processed, and a
\* run in which no hostname resolves ends without error.
C5_InvalidPolicy ==
    InvalidPolicy =>
        /\ pc \in {"credentials", "fetch"} => error = "none"
        /\ error = "invalid_ip_preference" =>
              /\ pc = "error"
              /\ i \in 1..Len(vms)
              /\ Resolves(i)
              /\ \A k \in 1..(i - 1) : ~Resolves(k) /\ CallsOf(k) = {}
              /\ \A j \in LogIdx : sink_log[j].vm = i /\ sink_log[j].op = "add_host"
        /\ \A k \in 1..Len(vms) :
              (Fetched /\ k <= i /\ Resolves(k)) => (k = i /\ pc \in {"variables", "error"})
        /\ (Fetched /\ \A k \in 1..Len(vms) : ~Resolves(k)) =>
              (error = "none" /\ pc \in {"loop", "done"})

\* an invalid configured policy: the error was raised at the second record,
\* after a first one that was skipped
C5_Witness ==
    /\ InvalidPolicy
    /\ "ip_preference" \in DOMAIN config
    /\ pc = "error"
    /\ error = "invalid_ip_preference"
    /\ i = 2
    /\ ~Resolves(1)

\* the SDK is unavailable, or a key is in neither the configuration nor the
\* environment
CannotConnect ==
    \/ ~HAS_OSC_SDK
    \/ \E key \in {<<"access_key", "OSC_ACCESS_KEY">>, <<"secret_key", "OSC_SECRET_KEY">>} :
          /\ ~Present(Configured(key[1], Null))
          /\ ~Present(IF key[2] \in DOMAIN environ THEN environ[key[2]] ELSE Null)

\* C6: when the SDK is unavailable, or the access key or the secret key is
\* in neither the configuration nor the environment, parse never gets past
\* the checks except by raising: no ReadVms call is made and nothing is
\* written to the sink.
C6_FailsBeforeAnyCall ==
    CannotConnect =>
        /\ gw_calls = <<>>
        /\ sink_log = <<>>
        /\ inventory = EmptyInventory
        /\ pc \in {"start", "options", "credentials", "error"}
        /\ (pc = "error") =>
              error = (IF HAS_OSC_SDK THEN "missing_credentials" ELSE "missing_required_lib")

\* the access key is there, the secret key is not: the run has failed
C6_Witness ==
    /\ pc = "error"
    /\ error = "missing_credentials"
    /\ Present(Configured("access_key", Null))
    /\ "secret_key" \notin DOMAIN config
    /\ "OSC_SECRET_KEY" \notin DOMAIN environ

\* a tag value with ':', '/' and ' ' replaced by '_' and nothing else changed
SanitizedValue(v) ==
    IF v = Null \/ v = <<>> THEN <<>>
    ELSE [j \in 1..Len(v) |-> IF v[j] \in {":", "/", " "} THEN "_" ELSE v[j]]

\* the name of the group of a tag
TagGroup(key, v) == <<"t", "a", "g", "_">> \o key \o <<"_">> \o SanitizedValue(v)

\* the joins the tags dimension made for record k
TagJoins(k) ==
    {j \in CallsOf(k) : sink_log[j].op = "add_child" /\ sink_log[j].dim = "tags"}

\* C7: with the tags dimension enabled, a processed record's host is added,
\* for every key of its flattened tag map (tags without a value dropped, the
\* last value kept for a repeated key), to the group "tag_" + key + "_" +
\* value with ':', '/' and ' ' replaced by '_'; it joins one such group per
\* key, and neither the key nor the hostname is changed.
C7_TagGroups ==
    \A k \in 1..Len(vms) :
        (Fetched /\ "tags" \in Dimensions /\ Processed(k))
        => LET h    == ChosenHostname(Strategy, vms[k])
               tags == vms[k].Tags
           IN  /\ \A j \in CallsOf(k) : sink_log[j].host = h
               /\ h \in inventory.hosts
               /\ \A key \in FlatKeys(tags) :
                     LET g == TagGroup(key, FlatValue(tags, key))
                     IN  /\ \E j \in TagJoins(k) : sink_log[j].group = g
                         /\ g \in inventory.groups
                         /\ <<g, h>> \in inventory.children
               /\ Cardinality(TagJoins(k)) = Cardinality(FlatKeys(tags))

\* the record tagged Name=web:1 gave the host web:1 in tag_Name_web_1
C7_Witness ==
    /\ pc = "done"
    /\ Len(vms) = 1
    /\ vms[1].Tags = <<[Key |-> <<"N", "a", "m", "e">>, Value |-> <<"w", "e", "b", ":", "1">>]>>
    /\ inventory.hosts = {<<"w", "e", "b", ":", "1">>}
    /\ inventory.children =
          {<<<<"t", "a", "g", "_", "N", "a", "m", "e", "_", "w", "e", "b", "_", "1">>,
             <<"w", "e", "b", ":", "1">>>>,
           <<<<"s", "t", "a", "t", "e", "_", "r", "u", "n">>, <<"w", "e", "b", ":", "1">>>>}

\* C8: when the Constructable features are about to run for a record, every
\* entry of host_vars has the value that record and the configuration give
\* it, also when an earlier record resolved to the same hostname.
C8_HostVarsFromRecord ==
    (pc = "constructable") =>
        LET vm == vms[i]
        IN  /\ "ansible_host" \in DOMAIN host_vars =>
                  host_vars["ansible_host"] = ChosenAddress(options.ip_preference, vm)
            /\ "outscale_vm_id" \in DOMAIN host_vars =>
                  host_vars["outscale_vm_id"] = vm.VmId
            /\ "outscale_state" \in DOMAIN host_vars =>
                  host_vars["outscale_state"] = vm.State
            /\ "outscale_vm_type" \in DOMAIN host_vars =>
                  host_vars["outscale_vm_type"] = vm.VmType
            /\ "outscale_subregion" \in DOMAIN host_vars =>
                  host_vars["outscale_subregion"] = vm.Placement.SubregionName
            /\ "outscale_tags" \in DOMAIN host_vars =>
                  /\ Len(host_vars["outscale_tags"]) = Cardinality(FlatKeys(vm.Tags))
                  /\ \A key \in FlatKeys(vm.Tags) :
                        \E j \in 1..Len(host_vars["outscale_tags"]) :
                            host_vars["outscale_tags"][j] = <<key, FlatValue(vm.Tags, key)>>

SingleDimensions == {"region", "subregion", "vm_type", "state"}

\* the source value of a dimension
SourceValue(d, vm) ==
    CASE d = "region"    -> options.region
      [] d = "subregion" -> vm.Placement.SubregionName
      [] d = "vm_type"   -> vm.VmType
      [] d = "state"     -> vm.State

\* the group a dimension makes of its source value
DimensionGroup(d, v) ==
    CASE d = "region"    -> v
      [] d = "subregion" -> v
      [] d = "vm_type"   -> <<"v", "m", "_", "t", "y", "p", "e", "_">> \o v
      [] d = "state"     -> <<"s", "t", "a", "t", "e", "_">> \o v

\* the group calls dimension d made for record k
DimensionCalls(k, d) ==
    {j \in CallsOf(k) : sink_log[j].op \in GroupOps /\ sink_log[j].dim = d}

\* C9: for a processed record and each of region, subregion, vm_type and
\* state, the host is added to the dimension's group (the region; the
\* subregion; "vm_type_" + type; "state_" + state) exactly when the dimension
\* is listed in group_by and its source value is present, whatever the other
\* dimensions; a dimension that is not listed makes no group and no
\* membership.
C9_Dimensions ==
    \A k \in 1..Len(vms) : \A d \in SingleDimensions :
        (Fetched /\ Processed(k))
        => LET h == ChosenHostname(Strategy, vms[k])
               v == SourceValue(d, vms[k])
           IN  IF d \in Dimensions /\ Present(v)
               THEN /\ Cardinality(DimensionCalls(k, d)) = 2
                    /\ \E j \in DimensionCalls(k, d) :
                          /\ sink_log[j].op = "add_group"
                          /\ sink_log[j].group = DimensionGroup(d, v)
                    /\ \E j \in DimensionCalls(k, d) :
                          /\ sink_log[j].op = "add_child"
                          /\ sink_log[j].group = DimensionGroup(d, v)
                          /\ sink_log[j].host = h
                    /\ DimensionGroup(d, v) \in inventory.groups
                    /\ <<DimensionGroup(d, v), h>> \in inventory.children
               ELSE DimensionCalls(k, d) = {}

\* grouped by state alone, a record with a region, a subregion, a type and a
\* state is in its state group and in no other
C9_Witness ==
    /\ pc = "done"
    /\ Dimensions = {"state"}
    /\ Len(vms) = 1
    /\ Processed(1)
    /\ \A d \in SingleDimensions : Present(SourceValue(d, vms[1]))
    /\ inventory.children = {<<DimensionGroup("state", vms[1].State), hostname>>}

\* the groups the enabled dimensions give record k
ExpectedGroups(k) ==
    {DimensionGroup(d, SourceValue(d, vms[k])) :
        d \in {d \in SingleDimensions \cap Dimensions : Present(SourceValue(d, vms[k]))}}
    \cup (IF "tags" \in Dimensions
          THEN {TagGroup(key, FlatValue(vms[k].Tags, key)) : key \in FlatKeys(vms[k].Tags)}
          ELSE {})

\* C10 as stated: when the Constructable features are invoked for a host,
\* the host already belongs to all of its tags, region, subregion, vm_type
\* and state groups.
C10_FeaturesAfterGrouping ==
    (pc = "constructable") =>
        \A g \in ExpectedGroups(i) : <<g, hostname>> \in inventory.children

\* C10 as amended: the Constructable features of a record run after its
\* variables are written and before its dimension-based grouping: when they
\* are invoked, no group call of that record has been made, and in the whole
\* run every Constructable call of a record precedes every group call of it.
C10_FeaturesBeforeGrouping ==
    /\ (pc = "constructable") =>
          /\ \A j \in CallsOf(i) : sink_log[j].op \notin GroupOps
          /\ \E j \in CallsOf(i) : sink_log[j].op = "set_variable"
    /\ \A j1 \in LogIdx : \A j2 \in LogIdx :
          (/\ sink_log[j1].vm = sink_log[j2].vm
           /\ sink_log[j1].op \in ConstructableOps
           /\ sink_log[j2].op \in GroupOps)
          => j1 < j2
    /\ \A k \in 1..Len(vms) :
          (Fetched /\ Processed(k)) =>
              \A op \in ConstructableOps : \E j \in CallsOf(k) : sink_log[j].op = op

\* a record went through the Constructable features and then joined groups
C10_Witness ==
    /\ pc = "done"
    /\ Len(vms) = 1
    /\ Processed(1)
    /\ ExpectedGroups(1) # {}
    /\ \E j1 \in CallsOf(1) : \E j2 \in CallsOf(1) :
          /\ sink_log[j1].op = "_add_host_to_keyed_groups"
          /\ sink_log[j2].op = "add_child"
          /\ j1 < j2

====
